---- MODULE Spec2Model ----
(***************************************************************************)
(* SandiKita (.skita) container engine: header codec (crypto-utils.ts),    *)
(* chunked encryptFile / decryptFile pipeline (crypto-worker.ts).          *)
(*                                                                         *)
(* A container is a sequence of byte cells.  A cell is a record            *)
(*   [b |-> 0..255, sid |-> Nat, j |-> Nat]                                *)
(* where b is the value of the byte.  A byte written by the program itself *)
(* (header fields, record length, nonce) has sid = <<>>.  A byte of an     *)
(* AEAD output carries in sid the seal operation <<[key, nonce, data]>>    *)
(* whose output it belongs to and its position j in that output: AES-GCM   *)
(* is an external primitive and is modelled as an ideal AEAD, a function   *)
(* of (key, nonce, data) such that decrypt(key, nonce, c) succeeds exactly *)
(* when c is, byte for byte, the output of encrypt(key, nonce, d) for some *)
(* d.  Argon2id and SHA-256 are modelled as injective functions of their   *)
(* inputs.  The variable seals logs the seal operations in the order they  *)
(* were performed.                                                         *)
(*                                                                         *)
(* Strings are sequences of code points; TextEncoder / TextDecoder are     *)
(* the UTF-8 encoder and the replacing UTF-8 decoder.                      *)
(***************************************************************************)
EXTENDS Integers, Sequences, FiniteSets, TLC

VARIABLES
  file,            \* encryptFile: options.file contents (plaintext bytes)
  name,            \* encryptFile: options.file.name (code points)
  password,        \* encryptFile: options.password
  algorithm,       \* encryptFile: options.algorithm
  epc,             \* encryptFile: position of the invocation
  fileChunks,      \* hashFileData: chunks read so far / returned data
  originalHash,    \* encryptFile: hash returned by hashFileData
  salt,            \* encryptFile: generated salt
  masterNonce,     \* encryptFile: generated master nonce
  emasterKey,      \* encryptFile: masterKeyBytes
  eheader,         \* encryptFile: header object handed to serializeHeader
  chunks,          \* encryptFile: [headerBytes, record 0, record 1, ...]
  ei,              \* encryptFile: loop index
  eprogress,       \* encryptFile: percents passed to onProgress, <<num, den>>
  eresult,         \* encryptFile: returned {blob, filename, originalHash}
  seals,           \* log of the encrypt calls performed, [key, nonce, data]
  dfile,           \* decryptFile: options.file contents (container cells)
  tamper,          \* what was done to the container before decryptFile
  dpassword,       \* decryptFile: options.password
  dpc,             \* decryptFile: position of the invocation
  dheader,         \* decryptFile: header returned by deserializeHeader
  headerSize,      \* decryptFile: value returned by getHeaderSize
  dmasterKey,      \* decryptFile: masterKeyBytes
  offset,          \* decryptFile: read offset
  di,              \* decryptFile: loop index
  decryptedChunks, \* decryptFile: plaintext chunks opened so far
  dprogress,       \* decryptFile: percents passed to onProgress, <<num, den>>
  dresult,         \* decryptFile: outcome (result object or thrown error)
  e2,              \* a second encryptFile invocation: its options and locals
  mode,            \* page: mode
  selectedFiles,   \* page: selectedFiles (what kind of file each one is)
  status,          \* page: status
  error,           \* page: error
  processedFiles,  \* page: processedFiles (index of the file of each result)
  fileProgresses,  \* page: fileProgresses, [status, progress] per file
  currentFileIndex, \* page: currentFileIndex
  overallProgress, \* page: overallProgress, <<num, den>>
  hpc,             \* handleProcess: position of the invocation
  hi,              \* handleProcess: loop index i
  results,         \* handleProcess: results
  hasError,        \* handleProcess: hasError
  cancelRequested, \* the caller has asked for the invocations to be cancelled
  batch            \* batchEncryptFiles / batchDecryptFiles: options and locals

evars == <<file, name, password, algorithm, epc, fileChunks, originalHash,
           salt, masterNonce, emasterKey, eheader, chunks, ei, eprogress,
           eresult>>
dvars == <<dpassword, dpc, dheader, headerSize, dmasterKey, offset, di,
           decryptedChunks, dprogress, dresult>>
pvars == <<mode, selectedFiles, status, error, processedFiles, fileProgresses,
           currentFileIndex, overallProgress, hpc, hi, results, hasError>>
xvars == <<e2, pvars, cancelRequested, batch>>
vars == <<evars, seals, dfile, tamper, dvars, xvars>>

----------------------------------------------------------------------------
(* Bounds of the model *)

\* most files selected on the page at once
MaxFiles == 2

\* cleartext bytes per chunk; the program uses 4 MiB (crypto-utils.ts:9),
\* scaled down so that files of a few bytes span several chunks
CHUNK_SIZE == 2
\* longest plaintext drawn
MaxFileLen == 3

----------------------------------------------------------------------------
(* Sequences and integers *)

Min(a, b) == IF a < b THEN a ELSE b

\* Blob.slice / TypedArray.slice(start, end): 0-based, end exclusive, clamped
Slice(s, start, end) ==
  LET a == Min(start, Len(s))
      e == Min(end, Len(s))
  IN IF a >= e THEN <<>> ELSE SubSeq(s, a + 1, e)

\* new Blob(parts): the parts in array order
RECURSIVE Concat(_)
ConcatReversed(ss) ==
  LET RECURSIVE R(_)
      R(t) == IF t = <<>> THEN <<>> ELSE R(Tail(t)) \o Head(t)
  IN R(ss)
Concat(ss) == IF ss = <<>> THEN <<>> ELSE Head(ss) \o Concat(Tail(ss))

Repeat(x, n) == [k \in 1..n |-> x]

\* a byte written by the program
Lit(v) == [b |-> v, sid |-> <<>>, j |-> 0]
LitSeq(vals) == [k \in 1..Len(vals) |-> Lit(vals[k])]
Vals(cells) == [k \in 1..Len(cells) |-> cells[k].b]

\* DataView.setUint8 / setUint16 / setUint32 (big-endian), value wrapped
U8(n) == <<n % 256>>
BE16(n) == <<(n \div 256) % 256, n % 256>>
LE32(n) == <<n % 256, (n \div 256) % 256, (n \div 65536) % 256,
             (n \div 16777216) % 256>>
BE32(n) == <<(n \div 16777216) % 256, (n \div 65536) % 256,
             (n \div 256) % 256, n % 256>>

\* DataView.getUint8 / getUint16 / getUint32 at a 0-based offset; the caller
\* checks the bounds (a read past the end throws RangeError)
GetU8(cells, off) == cells[off + 1].b
GetU16(cells, off) == cells[off + 1].b * 256 + cells[off + 2].b
GetU32(cells, off) == cells[off + 1].b * 16777216 + cells[off + 2].b * 65536
                      + cells[off + 3].b * 256 + cells[off + 4].b

----------------------------------------------------------------------------
(* TextEncoder().encode and TextDecoder().decode *)

IsSurrogate(cp) == cp >= 55296 /\ cp <= 57343

\* UTF-8 bytes of one code point; a lone surrogate is encoded as U+FFFD
EncodeCp(cp) ==
  IF cp < 128 THEN <<cp>>
  ELSE IF cp < 2048 THEN <<192 + (cp \div 64), 128 + (cp % 64)>>
  ELSE IF IsSurrogate(cp) THEN <<239, 191, 189>>
  ELSE IF cp < 65536
    THEN <<224 + (cp \div 4096), 128 + ((cp \div 64) % 64), 128 + (cp % 64)>>
  ELSE <<240 + (cp \div 262144), 128 + ((cp \div 4096) % 64),
         128 + ((cp \div 64) % 64), 128 + (cp % 64)>>

\* the bytes of the code points one after the other (the sequence is
\* halved at each level)
RECURSIVE TextEncode(_)
TextEncode(str) ==
  IF str = <<>> THEN <<>>
  ELSE IF Len(str) = 1 THEN EncodeCp(str[1])
  ELSE LET h == Len(str) \div 2
       IN TextEncode(SubSeq(str, 1, h)) \o TextEncode(SubSeq(str, h + 1, Len(str)))

IsCont(b) == b >= 128 /\ b <= 191

\* number of continuation bytes a lead byte asks for (0: ASCII, -1: invalid)
Needed(b) ==
  IF b < 128 THEN 0
  ELSE IF b >= 194 /\ b <= 223 THEN 1
  ELSE IF b >= 224 /\ b <= 239 THEN 2
  ELSE IF b >= 240 /\ b <= 244 THEN 3
  ELSE -1

\* range allowed for the first continuation byte after lead byte b
LowerCont(b) == IF b = 224 THEN 160 ELSE IF b = 240 THEN 144 ELSE 128
UpperCont(b) == IF b = 237 THEN 159 ELSE IF b = 244 THEN 143 ELSE 191

\* the replacing decoder (WHATWG), one code point, read at position p <= Len(bs):
\* a malformed or cut sequence gives U+FFFD and decoding resumes at the
\* byte that did not fit
DecodeOne(bs, p) ==
  LET b == bs[p]
      n == Needed(b)
  IN IF n = 0 THEN [cp |-> b, next |-> p + 1]
     ELSE IF n = -1 THEN [cp |-> 65533, next |-> p + 1]
     ELSE IF p + 1 > Len(bs)
             \/ bs[p + 1] < LowerCont(b) \/ bs[p + 1] > UpperCont(b)
       THEN [cp |-> 65533, next |-> p + 1]
     ELSE IF n = 1
       THEN [cp |-> (b - 192) * 64 + (bs[p + 1] - 128), next |-> p + 2]
     ELSE IF p + 2 > Len(bs) \/ ~IsCont(bs[p + 2])
       THEN [cp |-> 65533, next |-> p + 2]
     ELSE IF n = 2
       THEN [cp |-> (b - 224) * 4096 + (bs[p + 1] - 128) * 64
                    + (bs[p + 2] - 128),
             next |-> p + 3]
     ELSE IF p + 3 > Len(bs) \/ ~IsCont(bs[p + 3])
       THEN [cp |-> 65533, next |-> p + 3]
     ELSE [cp |-> (b - 240) * 262144 + (bs[p + 1] - 128) * 4096
                  + (bs[p + 2] - 128) * 64 + (bs[p + 3] - 128),
           next |-> p + 4]

\* at most n code points decoded from position p on, and the position
\* reached (the count is halved at each level)
RECURSIVE DecodeN(_, _, _)
DecodeN(bs, p, n) ==
  IF n = 0 \/ p > Len(bs) THEN [out |-> <<>>, next |-> p]
  ELSE IF n = 1
    THEN LET one == DecodeOne(bs, p)
         IN [out |-> <<one.cp>>, next |-> one.next]
  ELSE LET first == DecodeN(bs, p, n \div 2)
           rest == DecodeN(bs, first.next, n - (n \div 2))
       IN [out |-> first.out \o rest.out, next |-> rest.next]

DecodeFrom(bs, p) == DecodeN(bs, p, Len(bs)).out

\* TextDecoder() drops a leading byte order mark
TextDecode(bs) ==
  IF Len(bs) >= 3 /\ bs[1] = 239 /\ bs[2] = 187 /\ bs[3] = 191
    THEN DecodeFrom(bs, 4)
    ELSE DecodeFrom(bs, 1)

----------------------------------------------------------------------------
(* crypto-utils.ts: constants, key schedule, AEAD, header codec *)

MAGIC_BYTES == <<83, 75, 84, 65>>
FORMAT_VERSION == 1

\* header.originalHash of a header object that has no such property
NoHash == <<>>

\* Argon2id(password, salt, memory, iterations, parallelism), 32 bytes
deriveKeyArgon2(pw, slt, memory, iterations, parallelism) ==
  [pw |-> pw, salt |-> slt, memory |-> memory, iterations |-> iterations,
   parallelism |-> parallelism]

\* SHA-256(master key bytes || "chunk-<index>")
deriveChunkKeyShared(masterKey, chunkIndex) ==
  [master |-> IF e2.epc \in {"seal", "done"} THEN e2.masterKeyBytes
              ELSE masterKey,
   info |-> chunkIndex]
deriveChunkKey(masterKey, chunkIndex) ==
  [master |-> masterKey, info |-> chunkIndex]

\* masterNonce[0..8] || be32(chunkIndex)
deriveChunkNonceCounting(mn, chunkIndex) == Slice(mn, 0, 8) \o BE32(Len(seals))
deriveChunkNonce(mn, chunkIndex) == Slice(mn, 0, 8) \o BE32(chunkIndex)

\* SHA-256 of the data, as returned to the callers
calculateHash(data) == <<data>>

SealEntry(data, key, nonce) == [key |-> key, nonce |-> nonce, data |-> data]

\* value of byte j of the output of a seal operation (the ciphertext and tag
\* bytes of an AEAD are pseudo-random; any fixed function will do)
CtByte(entry, j) ==
  (37 * (entry.key.info + 1) + 11 * j + 3 * Len(entry.data) + 5) % 256
CtCell(entry, j) == [b |-> CtByte(entry, j), sid |-> <<entry>>, j |-> j]

\* encryptChunk: AES-GCM with a 128-bit tag, whatever algorithm the caller
\* names (the fourth argument of the call is not a parameter of the
\* function): the ciphertext of the data followed by the 16 bytes of the tag
encryptChunk(data, key, nonce) ==
  [k \in 1..(Len(data) + 16) |-> CtCell(SealEntry(data, key, nonce), k)]

\* crypto.subtle.decrypt accepts the payload: it is exactly the output of a
\* seal operation under this key and nonce
Opens(data, key, nonce) ==
  /\ Len(data) >= 16
  /\ data[1].sid # <<>>
  /\ LET entry == data[1].sid[1]
     IN /\ entry.key = key
        /\ entry.nonce = nonce
        /\ Len(data) = Len(entry.data) + 16
        /\ \A k \in 1..Len(data) : data[k] = CtCell(entry, k)

\* decryptChunk: AES-GCM open
decryptChunk(data, key, nonce) ==
  IF Opens(data, key, nonce)
    THEN [ok |-> TRUE, data |-> data[1].sid[1].data]
    ELSE [ok |-> FALSE, data |-> <<>>]

AlgorithmId(alg) == IF alg = "AES-GCM" THEN 0 ELSE 1

serializeHeader(header) ==
  LET filenameBytes == TextEncode(header.originalFilename)
  IN LitSeq(header.magic
            \o BE16(header.version)
            \o U8(AlgorithmId(header.algorithm))
            \o U8(0)
            \o BE32(header.kdfMemory)
            \o BE32(header.kdfIterations)
            \o U8(header.kdfParallelism)
            \o header.salt
            \o BE32(header.chunkSize)
            \o BE32(header.originalSize)
            \o BE32(header.totalChunks)
            \o BE16(Len(filenameBytes))
            \o filenameBytes)

\* bytes of the header up to and including the filename length field
FixedSize == 4 + 2 + 1 + 1 + 4 + 4 + 1 + 32 + 4 + 4 + 4 + 2

\* magic.every((b, i) => b === MAGIC_BYTES[i]) over data.slice(0, 4)
MagicOk(data) ==
  LET magic == Slice(data, 0, 4)
  IN \A k \in 1..Len(magic) : magic[k].b = MAGIC_BYTES[k]

\* deserializeHeader: the header object, or the error thrown
deserializeHeader(data) ==
  IF ~MagicOk(data) THEN [ok |-> FALSE, err |-> "InvalidFormat"]
  ELSE IF Len(data) < FixedSize THEN [ok |-> FALSE, err |-> "RangeError"]
  ELSE LET filenameLength == GetU16(data, 61)
       IN [ok |-> TRUE,
           header |->
             [magic |-> Vals(Slice(data, 0, 4)),
              version |-> GetU16(data, 4),
              algorithm |-> IF GetU8(data, 6) = 0 THEN "AES-GCM"
                            ELSE "ChaCha20-Poly1305",
              kdf |-> "Argon2id",
              kdfMemory |-> GetU32(data, 8),
              kdfIterations |-> GetU32(data, 12),
              kdfParallelism |-> GetU8(data, 16),
              salt |-> Vals(Slice(data, 17, 17 + 32)),
              chunkSize |-> GetU32(data, 49),
              originalSize |-> GetU32(data, 53),
              totalChunks |-> GetU32(data, 57),
              originalFilename |->
                TextDecode(Vals(Slice(data, 63, 63 + filenameLength))),
              originalHash |-> NoHash]]

\* getHeaderSize: fixedSize + view.getUint16(56)
getHeaderSize(data) == FixedSize + GetU16(data, 56)

----------------------------------------------------------------------------
(* Inputs *)

Passwords == {"alpha", "beta"}
Algorithms == {"AES-GCM", "ChaCha20-Poly1305"}

\* the plaintext of n bytes
PlainOf(n) == [k \in 1..n |-> (17 * k) % 256]
Files == {PlainOf(n) : n \in 0..MaxFileLen}

\* file names: empty, "e-acute .md" (4 UTF-8 bytes), and for every length n
\* of a plaintext a name of 256 * n bytes
Names == {<<>>, <<233, 46, 109>>} \cup {Repeat(97, 256 * n) : n \in 1..MaxFileLen}

\* values crypto.getRandomValues may give generateSalt / generateNonce
Salts == {[k \in 1..32 |-> (7 * k) % 256]}
MasterNonces == {[k \in 1..12 |-> k], [k \in 1..12 |-> 160 + k]}

\* ".skita"
DotSkita == <<46, 115, 107, 105, 116, 97>>

\* defaults of the destructured options of encryptFile
DefaultKdfMemory == 65536
DefaultKdfIterations == 3
DefaultKdfParallelism == 4

\* bytes of the file decryptFile reads for the header
HeaderWindow == 2048

\* Math.floor in the place of Math.ceil
CeilAsFloor(n, d) == n \div d
Ceil(n, d) == (n + d - 1) \div d

NoKey == deriveKeyArgon2("", <<>>, 0, 0, 0)
NoHeader ==
  [magic |-> <<>>, version |-> 0, algorithm |-> "", kdf |-> "",
   kdfMemory |-> 0, kdfIterations |-> 0, kdfParallelism |-> 0, salt |-> <<>>,
   chunkSize |-> 0, originalSize |-> 0, totalChunks |-> 0,
   originalFilename |-> <<>>, originalHash |-> NoHash]
NoEncryptResult == [done |-> FALSE, blob |-> <<>>, filename |-> <<>>,
                    originalHash |-> NoHash]
NoDecryptResult ==
  [status |-> "none", err |-> "", blob |-> <<>>, filename |-> <<>>,
   verified |-> FALSE, originalHash |-> NoHash, decryptedHash |-> NoHash]
NoTamper == [kind |-> "none", rec |-> 0, at |-> 0]

\* e2 when no second invocation was made
NoInvocation ==
  [file |-> <<>>, name |-> <<>>, password |-> "", algorithm |-> "",
   epc |-> "none", fileChunks |-> <<>>, originalHash |-> NoHash,
   salt |-> <<>>, masterNonce |-> <<>>, masterKeyBytes |-> NoKey,
   header |-> NoHeader, chunks |-> <<>>, i |-> 0, progress |-> <<>>,
   result |-> NoEncryptResult]

\* no batchEncryptFiles / batchDecryptFiles call was made
NoBatch ==
  [fn |-> "none", files |-> <<>>, bpc |-> "none", i |-> 0, results |-> <<>>,
   errors |-> <<>>, totalSuccess |-> 0, totalFailed |-> 0, calls |-> <<>>,
   progressCalls |-> 0]

\* the page after its first render (the useState initial values)
PageInit ==
  /\ mode = "encrypt"
  /\ selectedFiles = <<>>
  /\ status = "idle"
  /\ error = ""
  /\ processedFiles = <<>>
  /\ fileProgresses = <<>>
  /\ currentFileIndex = 0
  /\ overallProgress = <<0, 1>>
  /\ hpc = "idle"
  /\ hi = 0
  /\ results = <<>>
  /\ hasError = FALSE

\* decryptFile not yet called
DecryptIdle ==
  /\ dfile = <<>>
  /\ tamper = NoTamper
  /\ dpassword = ""
  /\ dpc = "idle"
  /\ dheader = NoHeader
  /\ headerSize = 0
  /\ dmasterKey = NoKey
  /\ offset = 0
  /\ di = 0
  /\ decryptedChunks = <<>>
  /\ dprogress = <<>>
  /\ dresult = NoDecryptResult

Init ==
  /\ file \in Files
  /\ name \in Names
  /\ password \in Passwords
  /\ algorithm \in Algorithms
  /\ epc = "init"
  /\ fileChunks = <<>>
  /\ originalHash = NoHash
  /\ salt = <<>>
  /\ masterNonce = <<>>
  /\ emasterKey = NoKey
  /\ eheader = NoHeader
  /\ chunks = <<>>
  /\ ei = 0
  /\ eprogress = <<>>
  /\ eresult = NoEncryptResult
  /\ seals = <<>>
  /\ DecryptIdle
  /\ e2 = NoInvocation
  /\ PageInit
  /\ cancelRequested = FALSE
  /\ batch = NoBatch

----------------------------------------------------------------------------
(* crypto-worker.ts: encryptFile (with hashFileData) *)

\* the percent encryptFile reports when hashFileData has read chunk i of
\* totalChunks, as a fraction <<numerator, denominator>>: a tenth of
\* (i + 1) / totalChunks * 100
HashProgressUnscaled(i, totalChunks) == <<100 * (i + 1), totalChunks>>
HashProgress(i, totalChunks) == <<10 * (i + 1), totalChunks>>

\* the percent encryptFile reports when it has sealed chunk i of
\* totalChunks: 20 + (80 * (i + 1)) / totalChunks
SealProgressFromIndex(i, totalChunks) ==
  <<20 * totalChunks + 80 * i, totalChunks>>
SealProgress(i, totalChunks) ==
  <<20 * totalChunks + 80 * (i + 1), totalChunks>>

\* encryptFile up to the first await of hashFileData
EncStart ==
  /\ epc = "init"
  /\ eprogress' = Append(eprogress, <<0, 1>>)
  /\ fileChunks' = <<>>
  /\ ei' = 0
  /\ epc' = "read"
  /\ UNCHANGED <<file, name, password, algorithm, originalHash, salt,
                 masterNonce, emasterKey, eheader, chunks, eresult>>
  /\ UNCHANGED <<seals, dfile, tamper, dvars>>
  /\ UNCHANGED xvars

\* hashFileData: one turn of the reading loop
EncRead ==
  /\ epc = "read"
  /\ ei < Ceil(Len(file), CHUNK_SIZE)
  /\ LET totalChunks == Ceil(Len(file), CHUNK_SIZE)
         start == ei * CHUNK_SIZE
         end == Min(start + CHUNK_SIZE, Len(file))
     IN /\ fileChunks' = Append(fileChunks, Slice(file, start, end))
        /\ eprogress' = Append(eprogress, HashProgress(ei, totalChunks))
  /\ ei' = ei + 1
  /\ UNCHANGED <<file, name, password, algorithm, epc, originalHash, salt,
                 masterNonce, emasterKey, eheader, chunks, eresult>>
  /\ UNCHANGED <<seals, dfile, tamper, dvars>>
  /\ UNCHANGED xvars

\* hashFileData: hash of the combined chunks; encryptFile: salt and nonce
EncHash ==
  /\ epc = "read"
  /\ ei >= Ceil(Len(file), CHUNK_SIZE)
  /\ originalHash' = calculateHash(Concat(fileChunks))
  /\ salt' \in Salts
  /\ masterNonce' \in MasterNonces
  /\ eprogress' = eprogress \o << <<10, 1>>, <<12, 1>> >>
  /\ epc' = "kdf"
  /\ UNCHANGED <<file, name, password, algorithm, fileChunks, emasterKey,
                 eheader, chunks, ei, eresult>>
  /\ UNCHANGED <<seals, dfile, tamper, dvars>>
  /\ UNCHANGED xvars

\* encryptFile: master key, header object, serialized header
EncDerive ==
  /\ epc = "kdf"
  /\ emasterKey' = deriveKeyArgon2(password, salt, DefaultKdfMemory,
                                   DefaultKdfIterations, DefaultKdfParallelism)
  /\ eprogress' = Append(eprogress, <<20, 1>>)
  /\ eheader' = [magic |-> MAGIC_BYTES,
                 version |-> FORMAT_VERSION,
                 algorithm |-> algorithm,
                 kdf |-> "Argon2id",
                 kdfMemory |-> DefaultKdfMemory,
                 kdfIterations |-> DefaultKdfIterations,
                 kdfParallelism |-> DefaultKdfParallelism,
                 salt |-> salt,
                 chunkSize |-> CHUNK_SIZE,
                 originalFilename |-> name,
                 originalSize |-> Len(file),
                 totalChunks |-> Len(fileChunks),
                 originalHash |-> originalHash]
  /\ chunks' = <<serializeHeader(eheader')>>
  /\ ei' = 0
  /\ epc' = "seal"
  /\ UNCHANGED <<file, name, password, algorithm, fileChunks, originalHash,
                 salt, masterNonce, eresult>>
  /\ UNCHANGED <<seals, dfile, tamper, dvars>>
  /\ UNCHANGED xvars

\* encryptFile: one turn of the sealing loop
EncChunk ==
  /\ epc = "seal"
  /\ ei < eheader.totalChunks
  /\ LET chunkData == fileChunks[ei + 1]
         chunkKey == deriveChunkKey(emasterKey, ei)
         chunkNonce == deriveChunkNonce(masterNonce, ei)
         encryptedChunk == encryptChunk(chunkData, chunkKey, chunkNonce)
         chunkRecord == LitSeq(BE32(Len(encryptedChunk))) \o LitSeq(chunkNonce)
                        \o encryptedChunk
     IN /\ seals' = Append(seals, SealEntry(chunkData, chunkKey, chunkNonce))
        /\ chunks' = Append(chunks, chunkRecord)
        /\ eprogress' = Append(eprogress,
                               SealProgress(ei, eheader.totalChunks))
  /\ ei' = ei + 1
  /\ UNCHANGED <<file, name, password, algorithm, epc, fileChunks,
                 originalHash, salt, masterNonce, emasterKey, eheader,
                 eresult>>
  /\ UNCHANGED <<dfile, tamper, dvars>>
  /\ UNCHANGED xvars

\* encryptFile: the blob of all chunks is returned; it is the file that
\* decryptFile is later given
EncFinish ==
  /\ epc = "seal"
  /\ ei >= eheader.totalChunks
  /\ eprogress' = Append(eprogress, <<100, 1>>)
  /\ eresult' = [done |-> TRUE, blob |-> Concat(chunks),
                 filename |-> name \o DotSkita,
                 originalHash |-> originalHash]
  /\ dfile' = Concat(chunks)
  /\ epc' = "done"
  /\ UNCHANGED <<file, name, password, algorithm, fileChunks, originalHash,
                 salt, masterNonce, emasterKey, eheader, chunks, ei>>
  /\ UNCHANGED <<seals, tamper, dvars>>
  /\ UNCHANGED xvars

----------------------------------------------------------------------------
(* What may happen to the container between encryptFile and decryptFile *)

\* 0-based offset in the container of chunk record r, as encryptFile laid
\* the records out
RecordStart(r) == Len(Concat(SubSeq(chunks, 1, r + 1)))
\* length of the encrypted payload of record r
PayloadLen(r) == Len(chunks[r + 2]) - 16

\* positions (1-based, in the payload) of the first and last ciphertext
\* byte and of the first and last tag byte
PayloadPositions(L) == {1, L - 16, L - 15, L}

\* header offsets that are overwritten, and the values written
HeaderOffsets == {0, 4, 5, 6, 7}
TamperValues == {0, 1, 2}

\* lengths the container is cut to
TruncateLengths == {0, 1, 2, 3, 4, 62, 63, 64, 65}

Untouched == epc = "done" /\ dpc = "idle" /\ tamper.kind = "none"

\* one byte of the encrypted payload of record r is changed
TamperPayload ==
  /\ Untouched
  /\ \E r \in 0..(eheader.totalChunks - 1) :
       \E k \in PayloadPositions(PayloadLen(r)) :
         LET at == RecordStart(r) + 16 + k
         IN /\ dfile' = [dfile EXCEPT ![at] = Lit((dfile[at].b + 1) % 256)]
            /\ tamper' = [kind |-> "payload", rec |-> r, at |-> at - 1]
  /\ UNCHANGED <<evars, seals, dvars>>
  /\ UNCHANGED xvars

\* one byte of the fixed header is overwritten
TamperHeader ==
  /\ Untouched
  /\ \E off \in HeaderOffsets : \E v \in TamperValues :
       /\ dfile[off + 1].b # v
       /\ dfile' = [dfile EXCEPT ![off + 1] = Lit(v)]
       /\ tamper' = [kind |-> "header", rec |-> 0, at |-> off]
  /\ UNCHANGED <<evars, seals, dvars>>
  /\ UNCHANGED xvars

\* the container is cut short
Truncate ==
  /\ Untouched
  /\ \E n \in TruncateLengths :
       /\ n < Len(dfile)
       /\ dfile' = Slice(dfile, 0, n)
       /\ tamper' = [kind |-> "truncate", rec |-> 0, at |-> n]
  /\ UNCHANGED <<evars, seals, dvars>>
  /\ UNCHANGED xvars

\* a plaintext of the same length that differs in every byte
Altered(data) == [k \in 1..Len(data) |-> (data[k] + 1) % 256]

\* the records of the container after the first n were replaced by records
\* sealing Altered plaintext under the chunk keys and nonces of the
\* container, and the seal operations that took
RECURSIVE Resealed(_, _)
Resealed(n, table) ==
  IF n = 0 THEN [cells |-> <<>>, table |-> table]
  ELSE LET prev == Resealed(n - 1, table)
           i == n - 1
           key == deriveChunkKey(emasterKey, i)
           nonce == deriveChunkNonce(masterNonce, i)
           data == Altered(fileChunks[n])
           payload == encryptChunk(data, key, nonce)
       IN [cells |-> prev.cells \o LitSeq(BE32(Len(payload)))
                     \o LitSeq(nonce) \o payload,
           table |-> Append(prev.table, SealEntry(data, key, nonce))]

\* every chunk record is replaced by a validly sealed record of different
\* plaintext (the header is kept)
ReplaceRecords ==
  /\ Untouched
  /\ eheader.totalChunks > 0
  /\ LET new == Resealed(eheader.totalChunks, seals)
     IN /\ dfile' = chunks[1] \o new.cells
        /\ seals' = new.table
  /\ tamper' = [kind |-> "replace", rec |-> 0, at |-> 0]
  /\ UNCHANGED <<evars, dvars>>
  /\ UNCHANGED xvars

\* two neighbouring chunk records change places
SwapRecords ==
  /\ Untouched
  /\ \E r \in 0..(eheader.totalChunks - 2) :
       /\ dfile' = Concat([k \in 1..Len(chunks) |->
                             IF k = r + 2 THEN chunks[r + 3]
                             ELSE IF k = r + 3 THEN chunks[r + 2]
                             ELSE chunks[k]])
       /\ tamper' = [kind |-> "swap", rec |-> r, at |-> 0]
  /\ UNCHANGED <<evars, seals, dvars>>
  /\ UNCHANGED xvars

\* the header with its totalChunks field (offset 57) set to k and, when
\* adjustSize, its originalSize field (offset 53) set to the bytes that
\* k chunks hold
HeaderFor(k, adjustSize) ==
  LET size == BE32(Min(k * CHUNK_SIZE, Len(file)))
      total == BE32(k)
  IN [j \in 1..Len(chunks[1]) |->
        IF j \in 58..61 THEN Lit(total[j - 57])
        ELSE IF adjustSize /\ j \in 54..57 THEN Lit(size[j - 53])
        ELSE chunks[1][j]]

\* the trailing chunk records after the first k are removed and the header
\* is adjusted to match
DropRecords ==
  /\ Untouched
  /\ \E k \in 0..(eheader.totalChunks - 1) : \E adjustSize \in BOOLEAN :
       /\ dfile' = HeaderFor(k, adjustSize) \o Concat(SubSeq(chunks, 2, k + 1))
       /\ tamper' = [kind |-> "drop", rec |-> k,
                     at |-> IF adjustSize THEN 1 ELSE 0]
  /\ UNCHANGED <<evars, seals, dvars>>
  /\ UNCHANGED xvars

----------------------------------------------------------------------------
(* The caller's wish to cancel.  EncryptOptions and DecryptOptions have no  *)
(* field through which it could reach an invocation, and neither loop reads *)
(* anything but its own locals.                                             *)

\* the caller asks for cancellation while a chunk loop is between two chunks
RequestCancel ==
  /\ ~cancelRequested
  /\ \/ epc = "seal" /\ ei > 0 /\ ei < eheader.totalChunks
     \/ dpc = "open" /\ di > 0 /\ di < dheader.totalChunks
  /\ cancelRequested' = TRUE
  /\ UNCHANGED <<evars, seals, dfile, tamper, dvars, e2, pvars, batch>>

----------------------------------------------------------------------------
(* crypto-worker.ts: decryptFile *)

\* the error thrown, with the chunks decrypted so far handed to the caller
FailedWithPartial(err) ==
  [status |-> "error", err |-> err, blob |-> Concat(decryptedChunks),
   filename |-> <<>>, verified |-> FALSE, originalHash |-> NoHash,
   decryptedHash |-> NoHash]
Failed(err) ==
  [status |-> "error", err |-> err, blob |-> <<>>, filename |-> <<>>,
   verified |-> FALSE, originalHash |-> NoHash, decryptedHash |-> NoHash]

\* decryptFile: header window, deserializeHeader, getHeaderSize
DecStart ==
  /\ epc = "done"
  /\ dpc = "idle"
  /\ dpassword' \in Passwords
  /\ LET headerData == Slice(dfile, 0, HeaderWindow)
         parsed == deserializeHeader(headerData)
     IN IF parsed.ok
          THEN /\ dheader' = parsed.header
               /\ headerSize' = getHeaderSize(headerData)
               /\ dprogress' = dprogress \o << <<0, 1>>, <<5, 1>> >>
               /\ dpc' = "pause"
               /\ dresult' = dresult
          ELSE /\ dprogress' = Append(dprogress, <<0, 1>>)
               /\ dpc' = "failed"
               /\ dresult' = Failed(parsed.err)
               /\ UNCHANGED <<dheader, headerSize>>
  /\ UNCHANGED <<dmasterKey, offset, di, decryptedChunks>>
  /\ UNCHANGED <<evars, seals, dfile, tamper>>
  /\ UNCHANGED xvars

\* decryptFile: the pause that shows the detected algorithm
DecPause ==
  /\ dpc = "pause"
  /\ dprogress' = Append(dprogress, <<6, 1>>)
  /\ dpc' = "kdf"
  /\ UNCHANGED <<dpassword, dheader, headerSize, dmasterKey, offset, di,
                 decryptedChunks, dresult>>
  /\ UNCHANGED <<evars, seals, dfile, tamper>>
  /\ UNCHANGED xvars

\* decryptFile: master key from the password and the header's parameters
DecDerive ==
  /\ dpc = "kdf"
  /\ dmasterKey' = deriveKeyArgon2(dpassword, dheader.salt, dheader.kdfMemory,
                                   dheader.kdfIterations,
                                   dheader.kdfParallelism)
  /\ dprogress' = Append(dprogress, <<15, 1>>)
  /\ decryptedChunks' = <<>>
  /\ offset' = headerSize
  /\ di' = 0
  /\ dpc' = "open"
  /\ UNCHANGED <<dpassword, dheader, headerSize, dresult>>
  /\ UNCHANGED <<evars, seals, dfile, tamper>>
  /\ UNCHANGED xvars

\* decryptFile: one turn of the opening loop
DecChunk ==
  /\ dpc = "open"
  /\ di < dheader.totalChunks
  /\ LET chunkHeaderData == Slice(dfile, offset, offset + 16)
     IN IF Len(chunkHeaderData) < 4
          THEN \* chunkHeaderView.getUint32(0) is out of bounds
               /\ dpc' = "failed"
               /\ dresult' = Failed("RangeError")
               /\ UNCHANGED <<offset, di, decryptedChunks, dprogress>>
          ELSE LET encryptedLength == GetU32(chunkHeaderData, 0)
                   chunkNonce == Vals(Slice(chunkHeaderData, 4, 16))
                   encryptedData == Slice(dfile, offset + 16,
                                          offset + 16 + encryptedLength)
                   chunkKey == deriveChunkKey(dmasterKey, di)
                   opened == decryptChunk(encryptedData, chunkKey, chunkNonce)
               IN IF opened.ok
                    THEN /\ decryptedChunks' =
                              Append(decryptedChunks, opened.data)
                         /\ offset' = offset + 16 + encryptedLength
                         /\ dprogress' =
                              Append(dprogress,
                                     <<15 * dheader.totalChunks + 75 * (di + 1),
                                       dheader.totalChunks>>)
                         /\ di' = di + 1
                         /\ UNCHANGED <<dpc, dresult>>
                    ELSE /\ dpc' = "failed"
                         /\ dresult' = Failed("DecryptFailed")
                         /\ UNCHANGED <<offset, di, decryptedChunks,
                                        dprogress>>
  /\ UNCHANGED <<dpassword, dheader, headerSize, dmasterKey>>
  /\ UNCHANGED <<evars, seals, dfile, tamper>>
  /\ UNCHANGED xvars

\* decryptFile: integrity check when the header has a hash, then the result
DecFinish ==
  /\ dpc = "open"
  /\ di >= dheader.totalChunks
  /\ LET decryptedHash == calculateHash(Concat(decryptedChunks))
         verified == decryptedHash = dheader.originalHash
     IN IF dheader.originalHash # NoHash /\ ~verified
          THEN /\ dprogress' = Append(dprogress, <<92, 1>>)
               /\ dpc' = "failed"
               /\ dresult' = Failed("IntegrityFailed")
          ELSE /\ dprogress' =
                    IF dheader.originalHash # NoHash
                      THEN dprogress \o << <<92, 1>>, <<98, 1>>, <<100, 1>> >>
                      ELSE Append(dprogress, <<100, 1>>)
               /\ dpc' = "done"
               /\ dresult' =
                    [status |-> "ok", err |-> "",
                     blob |-> Concat(decryptedChunks),
                     filename |-> dheader.originalFilename,
                     verified |-> dheader.originalHash # NoHash,
                     originalHash |-> dheader.originalHash,
                     decryptedHash |-> IF dheader.originalHash # NoHash
                                         THEN decryptedHash ELSE NoHash]
  /\ UNCHANGED <<dpassword, dheader, headerSize, dmasterKey, offset, di,
                 decryptedChunks>>
  /\ UNCHANGED <<evars, seals, dfile, tamper>>
  /\ UNCHANGED xvars

Next ==
  \/ EncStart \/ EncRead \/ EncHash \/ EncDerive \/ EncChunk \/ EncFinish
  \/ TamperPayload \/ TamperHeader \/ Truncate \/ ReplaceRecords
  \/ SwapRecords \/ DropRecords
  \/ RequestCancel
  \/ DecStart \/ DecPause \/ DecDerive \/ DecChunk \/ DecFinish

Spec == Init /\ [][Next]_vars

----------------------------------------------------------------------------
(* serializeHeader on headers whose fields are drawn freely: the header    *)
(* step of encryptFile for inputs too large to be held as sequences of a   *)
(* few bytes                                                               *)

\* largest value of the filename length field (setUint16)
MaxFilenameBytes == 65535

\* file names of 0, 4, 65535, 65536 and 65537 UTF-8 bytes; the long ones
\* are made of U+1F600, which takes four bytes
HeaderNames ==
  LET q == (MaxFilenameBytes + 1) \div 4
  IN {<<>>, <<233, 46, 109>>,
      <<97, 97, 97>> \o Repeat(128512, q - 1),
      Repeat(128512, q),
      <<97>> \o Repeat(128512, q)}

\* file.size of the inputs
HeaderSizes == {0, 1, 255, 256, 65536, 16777216}

InitHeader ==
  /\ file = <<>>
  /\ name \in HeaderNames
  /\ password = "alpha"
  /\ algorithm \in Algorithms
  /\ epc = "header"
  /\ fileChunks = <<>>
  /\ originalHash = NoHash
  /\ salt \in Salts
  /\ masterNonce = <<>>
  /\ emasterKey = NoKey
  /\ \E size \in HeaderSizes :
       eheader = [magic |-> MAGIC_BYTES,
                  version |-> FORMAT_VERSION,
                  algorithm |-> algorithm,
                  kdf |-> "Argon2id",
                  kdfMemory |-> DefaultKdfMemory,
                  kdfIterations |-> DefaultKdfIterations,
                  kdfParallelism |-> DefaultKdfParallelism,
                  salt |-> salt,
                  chunkSize |-> CHUNK_SIZE,
                  originalFilename |-> name,
                  originalSize |-> size,
                  totalChunks |-> Ceil(size, CHUNK_SIZE),
                  originalHash |-> NoHash]
  /\ chunks = <<>>
  /\ ei = 0
  /\ eprogress = <<>>
  /\ eresult = NoEncryptResult
  /\ seals = <<>>
  /\ DecryptIdle
  /\ e2 = NoInvocation
  /\ PageInit
  /\ cancelRequested = FALSE
  /\ batch = NoBatch

\* encryptFile: const headerBytes = serializeHeader(header); chunks = [headerBytes]
EncHeader ==
  /\ epc = "header"
  /\ chunks' = <<serializeHeader(eheader)>>
  /\ epc' = "headerDone"
  /\ UNCHANGED <<file, name, password, algorithm, fileChunks, originalHash,
                 salt, masterNonce, emasterKey, eheader, ei, eprogress,
                 eresult>>
  /\ UNCHANGED <<seals, dfile, tamper, dvars, xvars>>

NextHeader == EncHeader

SpecHeader == InitHeader /\ [][NextHeader]_vars

----------------------------------------------------------------------------
(* encryptFile and decryptFile on file names around the length that still  *)
(* fits, with the fixed header, into the window decryptFile reads.          *)

\* names whose header ends exactly at the window, one byte after it (in one
\* and in two-byte characters), and well after it
WindowNames ==
  LET fit == HeaderWindow - FixedSize
  IN {Repeat(97, fit), Repeat(97, fit + 1),
      Repeat(97, fit - 1) \o <<233>>, Repeat(97, fit + 63)}

WindowFiles == {PlainOf(0), PlainOf(1)}

InitWindow ==
  /\ file \in WindowFiles
  /\ name \in WindowNames
  /\ password \in Passwords
  /\ algorithm \in Algorithms
  /\ epc = "init"
  /\ fileChunks = <<>>
  /\ originalHash = NoHash
  /\ salt = <<>>
  /\ masterNonce = <<>>
  /\ emasterKey = NoKey
  /\ eheader = NoHeader
  /\ chunks = <<>>
  /\ ei = 0
  /\ eprogress = <<>>
  /\ eresult = NoEncryptResult
  /\ seals = <<>>
  /\ DecryptIdle
  /\ e2 = NoInvocation
  /\ PageInit
  /\ cancelRequested = FALSE
  /\ batch = NoBatch

NextWindow ==
  \/ EncStart \/ EncRead \/ EncHash \/ EncDerive \/ EncChunk \/ EncFinish
  \/ DecStart \/ DecPause \/ DecDerive \/ DecChunk \/ DecFinish

SpecWindow == InitWindow /\ [][NextWindow]_vars

----------------------------------------------------------------------------
(* The page (Index): file selection, handleProcess over the selected files, *)
(* handleReset.  A selected file is "plain" or "skita" (its name ends with  *)
(* .skita).  The encryptFile / decryptFile call handleProcess awaits is     *)
(* seen from the page: it calls onProgress and then resolves or rejects.    *)

FileKinds == {"plain", "skita"}

\* percents an invocation passes to onProgress
ProgressValues == {0, 50, 100}

AllFailed == "Semua file gagal diproses"

InitPage ==
  /\ file = <<>>
  /\ name = <<>>
  /\ password = ""
  /\ algorithm = "AES-GCM"
  /\ epc = "init"
  /\ fileChunks = <<>>
  /\ originalHash = NoHash
  /\ salt = <<>>
  /\ masterNonce = <<>>
  /\ emasterKey = NoKey
  /\ eheader = NoHeader
  /\ chunks = <<>>
  /\ ei = 0
  /\ eprogress = <<>>
  /\ eresult = NoEncryptResult
  /\ seals = <<>>
  /\ DecryptIdle
  /\ e2 = NoInvocation
  /\ PageInit
  /\ cancelRequested = FALSE
  /\ batch = NoBatch

\* what the page leaves alone: the locals of the engine's invocations
PageFrame ==
  UNCHANGED <<file, name, algorithm, epc, fileChunks, originalHash, salt,
              masterNonce, emasterKey, eheader, chunks, ei, eprogress,
              eresult, seals, dfile, tamper, dvars, e2, cancelRequested,
              batch>>

\* the form (drop zone, password, process button) is rendered
FormShown == status = "idle"

\* a "Proses Lagi" / "Coba Lagi" button is rendered
ResetShownWhileProcessing == status # "idle"
ResetShown ==
  \/ status = "success" /\ processedFiles # <<>>
  \/ status = "error" /\ processedFiles = <<>>

\* PasswordInput onChange
setPassword ==
  /\ FormShown
  /\ \E pw \in Passwords : pw # password /\ password' = pw
  /\ UNCHANGED pvars
  /\ PageFrame

\* ModeToggle onChange
setMode ==
  /\ \E m \in {"encrypt", "decrypt"} : m # mode /\ mode' = m
  /\ UNCHANGED <<password, selectedFiles, status, error, processedFiles,
                 fileProgresses, currentFileIndex, overallProgress, hpc, hi,
                 results, hasError>>
  /\ PageFrame

handleFileSelect ==
  /\ FormShown
  /\ \E n \in 1..(MaxFiles - Len(selectedFiles)) :
       \E files \in [1..n -> FileKinds] :
         /\ selectedFiles' = selectedFiles \o files
         /\ mode' = IF Len(selectedFiles) = 0
                        /\ \E k \in 1..n : files[k] = "skita"
                      THEN "decrypt" ELSE mode
  /\ status' = "idle"
  /\ error' = ""
  /\ UNCHANGED <<password, processedFiles, fileProgresses, currentFileIndex,
                 overallProgress, hpc, hi, results, hasError>>
  /\ PageFrame

handleClearFiles ==
  /\ FormShown
  /\ selectedFiles # <<>>
  /\ selectedFiles' = <<>>
  /\ status' = "idle"
  /\ error' = ""
  /\ processedFiles' = <<>>
  /\ fileProgresses' = <<>>
  /\ UNCHANGED <<password, mode, currentFileIndex, overallProgress, hpc, hi,
                 results, hasError>>
  /\ PageFrame

handleRemoveFile ==
  /\ FormShown
  /\ \E index \in 1..Len(selectedFiles) :
       selectedFiles' = [k \in 1..(Len(selectedFiles) - 1) |->
                          IF k < index THEN selectedFiles[k]
                          ELSE selectedFiles[k + 1]]
  /\ UNCHANGED <<password, mode, status, error, processedFiles,
                 fileProgresses, currentFileIndex, overallProgress, hpc, hi,
                 results, hasError>>
  /\ PageFrame

\* the page status handleProcess ends with, given its results
FinalStatusAllOrNothing(res) ==
  IF Len(res) = Len(selectedFiles) THEN "success" ELSE "error"
FinalStatus(res) == IF Len(res) > 0 THEN "success" ELSE "error"

\* handleProcess from the top of the loop body for file next (0-based), or
\* from the end of the loop, given the file progresses so far: up to the
\* await of file next, or to the end of handleProcess
LoopFrom(next, fps, res, err) ==
  IF next < Len(selectedFiles)
    THEN /\ currentFileIndex' = next
         /\ fileProgresses' =
              [fps EXCEPT ![next + 1] =
                 [status |-> "processing", progress |-> <<0, 1>>]]
         /\ overallProgress' = <<100 * next, Len(selectedFiles)>>
         /\ hi' = next
         /\ hpc' = "await"
         /\ UNCHANGED <<processedFiles, status, error>>
    ELSE /\ overallProgress' = <<100, 1>>
         /\ processedFiles' = res
         /\ status' = FinalStatus(res)
         /\ error' = IF Len(res) = 0 /\ err THEN AllFailed ELSE error
         /\ fileProgresses' = fps
         /\ hi' = next
         /\ hpc' = "idle"
         /\ UNCHANGED currentFileIndex

\* handleProcess up to its first await
handleProcess ==
  /\ FormShown
  /\ hpc = "idle"
  /\ selectedFiles # <<>>
  /\ password # ""
  /\ status' = "processing"
  /\ error' = ""
  /\ processedFiles' = <<>>
  /\ results' = <<>>
  /\ hasError' = FALSE
  /\ currentFileIndex' = 0
  /\ fileProgresses' =
       [k \in 1..Len(selectedFiles) |->
          IF k = 1 THEN [status |-> "processing", progress |-> <<0, 1>>]
          ELSE [status |-> "pending", progress |-> <<0, 1>>]]
  /\ overallProgress' = <<0, Len(selectedFiles)>>
  /\ hi' = 0
  /\ hpc' = "await"
  /\ UNCHANGED <<password, mode, selectedFiles>>
  /\ PageFrame

\* the onProgress callback handleProcess gave the invocation
onProgress ==
  /\ hpc = "await"
  /\ \E p \in ProgressValues :
       /\ fileProgresses' =
            [fileProgresses EXCEPT ![hi + 1].progress = <<p, 1>>]
       /\ overallProgress' = <<100 * hi + p, Len(selectedFiles)>>
  /\ UNCHANGED <<password, mode, selectedFiles, status, error,
                 processedFiles, currentFileIndex, hpc, hi, results,
                 hasError>>
  /\ PageFrame

\* the awaited encryptFile / decryptFile resolves
handleProcessResolved ==
  /\ hpc = "await"
  /\ results' = Append(results, hi)
  /\ hasError' = hasError
  /\ LoopFrom(hi + 1,
              [fileProgresses EXCEPT ![hi + 1] =
                 [status |-> "success", progress |-> <<100, 1>>]],
              results', hasError')
  /\ UNCHANGED <<password, mode, selectedFiles>>
  /\ PageFrame

\* the awaited encryptFile / decryptFile rejects
handleProcessRejected ==
  /\ hpc = "await"
  /\ results' = results
  /\ hasError' = TRUE
  /\ LoopFrom(hi + 1,
              [fileProgresses EXCEPT ![hi + 1].status = "error"],
              results', hasError')
  /\ UNCHANGED <<password, mode, selectedFiles>>
  /\ PageFrame

handleReset ==
  /\ ResetShown
  /\ selectedFiles' = <<>>
  /\ password' = ""
  /\ status' = "idle"
  /\ error' = ""
  /\ processedFiles' = <<>>
  /\ fileProgresses' = <<>>
  /\ overallProgress' = <<0, 1>>
  /\ UNCHANGED <<mode, currentFileIndex, hpc, hi, results, hasError>>
  /\ PageFrame

NextPage ==
  \/ setPassword \/ setMode \/ handleFileSelect \/ handleClearFiles
  \/ handleRemoveFile \/ handleProcess \/ onProgress
  \/ handleProcessResolved \/ handleProcessRejected \/ handleReset

SpecPage == InitPage /\ [][NextPage]_vars

----------------------------------------------------------------------------
(* batchEncryptFiles / batchDecryptFiles.  The two drivers differ only in   *)
(* the function they await.  That call is seen from the driver: it calls    *)
(* onProgress and then resolves or rejects.  A callback the caller gave     *)
(* returns or throws.  results and errors hold "value" or "null" per entry; *)
(* calls is the log of the callbacks called, [kind, fileIndex].             *)

\* most onFileProgress calls during one file
MaxProgressCalls == 2

InitBatch ==
  /\ file = <<>>
  /\ name = <<>>
  /\ password = "alpha"
  /\ algorithm = "AES-GCM"
  /\ epc = "init"
  /\ fileChunks = <<>>
  /\ originalHash = NoHash
  /\ salt = <<>>
  /\ masterNonce = <<>>
  /\ emasterKey = NoKey
  /\ eheader = NoHeader
  /\ chunks = <<>>
  /\ ei = 0
  /\ eprogress = <<>>
  /\ eresult = NoEncryptResult
  /\ seals = <<>>
  /\ DecryptIdle
  /\ e2 = NoInvocation
  /\ PageInit
  /\ cancelRequested = FALSE
  /\ \E fn \in {"batchEncryptFiles", "batchDecryptFiles"} :
       \E n \in 0..MaxFiles :
         batch = [NoBatch EXCEPT !.fn = fn,
                                 !.files = [k \in 1..n |-> "plain"],
                                 !.bpc = "init"]

BatchFrame ==
  UNCHANGED <<evars, seals, dfile, tamper, dvars, e2, pvars, cancelRequested>>

\* the top of the loop for file next (0-based): the call that is awaited,
\* or the return
BatchLoopFrom(b, next) ==
  IF next < Len(b.files)
    THEN [b EXCEPT !.i = next, !.bpc = "await", !.progressCalls = 0]
    ELSE [b EXCEPT !.i = next, !.bpc = "returned"]

\* the catch block for file b.i, with an onFileError that throws or not
BatchCatch(b, errorThrows) ==
  LET c == [b EXCEPT !.results = Append(@, "null"),
                     !.errors = Append(@, "value"),
                     !.totalFailed = @ + 1,
                     !.calls = Append(@, [kind |-> "error", fileIndex |-> b.i])]
  IN IF errorThrows THEN [c EXCEPT !.bpc = "thrown"]
     ELSE BatchLoopFrom(c, b.i + 1)

\* the driver up to its first await
BatchStart ==
  /\ batch.bpc = "init"
  /\ batch' = BatchLoopFrom(batch, 0)
  /\ BatchFrame

\* the awaited call calls onProgress, which calls onFileProgress; when that
\* throws, the awaited call rejects
BatchProgress ==
  /\ batch.bpc = "await"
  /\ batch.progressCalls < MaxProgressCalls
  /\ \E progressThrows, errorThrows \in BOOLEAN :
       LET b == [batch EXCEPT !.calls = Append(@, [kind |-> "progress",
                                                   fileIndex |-> batch.i]),
                              !.progressCalls = @ + 1]
       IN batch' = IF progressThrows THEN BatchCatch(b, errorThrows) ELSE b
  /\ BatchFrame

\* the awaited call resolves: the rest of the try block, and the catch block
\* when onFileComplete throws
BatchResolved ==
  /\ batch.bpc = "await"
  /\ \E completeThrows, errorThrows \in BOOLEAN :
       LET b == [batch EXCEPT !.results = Append(@, "value"),
                              !.errors = Append(@, "null"),
                              !.totalSuccess = @ + 1,
                              !.calls = Append(@, [kind |-> "complete",
                                                   fileIndex |-> batch.i])]
       IN batch' = IF completeThrows THEN BatchCatch(b, errorThrows)
                   ELSE BatchLoopFrom(b, batch.i + 1)
  /\ BatchFrame

\* the awaited call rejects: the catch block
BatchRejected ==
  /\ batch.bpc = "await"
  /\ \E errorThrows \in BOOLEAN : batch' = BatchCatch(batch, errorThrows)
  /\ BatchFrame

NextBatch == BatchStart \/ BatchProgress \/ BatchResolved \/ BatchRejected

SpecBatch == InitBatch /\ [][NextBatch]_vars

----------------------------------------------------------------------------
(* Two encryptFile invocations and one decryptFile invocation in flight at  *)
(* once.  The second encryptFile keeps its locals in the record e2; its     *)
(* steps are those of the first, between the same awaits.                   *)

\* plaintexts of one chunk and of more than one chunk
PairFiles == {PlainOf(1), PlainOf(MaxFileLen)}

\* the file name of 256 * n bytes for a plaintext of n bytes
PairName(f) == Repeat(97, 256 * Len(f))

InitPair ==
  /\ file \in PairFiles
  /\ name = PairName(file)
  /\ password \in Passwords
  /\ algorithm = "AES-GCM"
  /\ epc = "init"
  /\ fileChunks = <<>>
  /\ originalHash = NoHash
  /\ salt = <<>>
  /\ masterNonce = <<>>
  /\ emasterKey = NoKey
  /\ eheader = NoHeader
  /\ chunks = <<>>
  /\ ei = 0
  /\ eprogress = <<>>
  /\ eresult = NoEncryptResult
  /\ seals = <<>>
  /\ DecryptIdle
  /\ \E f \in PairFiles, pw \in Passwords :
       e2 = [NoInvocation EXCEPT !.file = f, !.name = PairName(f),
                                 !.password = pw, !.algorithm = "AES-GCM",
                                 !.epc = "init"]
  /\ PageInit
  /\ cancelRequested = FALSE
  /\ batch = NoBatch

\* what a step of the second encryptFile leaves alone
Enc2Frame ==
  UNCHANGED <<evars, dfile, tamper, dvars, pvars, cancelRequested, batch>>

Enc2Start ==
  /\ e2.epc = "init"
  /\ e2' = [e2 EXCEPT !.progress = Append(@, <<0, 1>>),
                      !.fileChunks = <<>>,
                      !.i = 0,
                      !.epc = "read"]
  /\ UNCHANGED seals
  /\ Enc2Frame

Enc2Read ==
  /\ e2.epc = "read"
  /\ e2.i < Ceil(Len(e2.file), CHUNK_SIZE)
  /\ LET totalChunks == Ceil(Len(e2.file), CHUNK_SIZE)
         start == e2.i * CHUNK_SIZE
         end == Min(start + CHUNK_SIZE, Len(e2.file))
     IN e2' = [e2 EXCEPT !.fileChunks = Append(@, Slice(e2.file, start, end)),
                         !.progress = Append(@, HashProgress(e2.i, totalChunks)),
                         !.i = @ + 1]
  /\ UNCHANGED seals
  /\ Enc2Frame

Enc2Hash ==
  /\ e2.epc = "read"
  /\ e2.i >= Ceil(Len(e2.file), CHUNK_SIZE)
  /\ \E s \in Salts, mn \in MasterNonces :
       e2' = [e2 EXCEPT !.originalHash = calculateHash(Concat(e2.fileChunks)),
                        !.salt = s,
                        !.masterNonce = mn,
                        !.progress = @ \o << <<10, 1>>, <<12, 1>> >>,
                        !.epc = "kdf"]
  /\ UNCHANGED seals
  /\ Enc2Frame

Enc2Derive ==
  /\ e2.epc = "kdf"
  /\ LET header == [magic |-> MAGIC_BYTES,
                    version |-> FORMAT_VERSION,
                    algorithm |-> e2.algorithm,
                    kdf |-> "Argon2id",
                    kdfMemory |-> DefaultKdfMemory,
                    kdfIterations |-> DefaultKdfIterations,
                    kdfParallelism |-> DefaultKdfParallelism,
                    salt |-> e2.salt,
                    chunkSize |-> CHUNK_SIZE,
                    originalFilename |-> e2.name,
                    originalSize |-> Len(e2.file),
                    totalChunks |-> Len(e2.fileChunks),
                    originalHash |-> e2.originalHash]
     IN e2' = [e2 EXCEPT !.masterKeyBytes =
                            deriveKeyArgon2(e2.password, e2.salt,
                                            DefaultKdfMemory,
                                            DefaultKdfIterations,
                                            DefaultKdfParallelism),
                         !.progress = Append(@, <<20, 1>>),
                         !.header = header,
                         !.chunks = <<serializeHeader(header)>>,
                         !.i = 0,
                         !.epc = "seal"]
  /\ UNCHANGED seals
  /\ Enc2Frame

Enc2Chunk ==
  /\ e2.epc = "seal"
  /\ e2.i < e2.header.totalChunks
  /\ LET chunkData == e2.fileChunks[e2.i + 1]
         chunkKey == deriveChunkKey(e2.masterKeyBytes, e2.i)
         chunkNonce == deriveChunkNonce(e2.masterNonce, e2.i)
         encryptedChunk == encryptChunk(chunkData, chunkKey, chunkNonce)
         chunkRecord == LitSeq(BE32(Len(encryptedChunk))) \o LitSeq(chunkNonce)
                        \o encryptedChunk
     IN /\ seals' = Append(seals, SealEntry(chunkData, chunkKey, chunkNonce))
        /\ e2' = [e2 EXCEPT !.chunks = Append(@, chunkRecord),
                            !.progress =
                              Append(@, SealProgress(e2.i,
                                                     e2.header.totalChunks)),
                            !.i = @ + 1]
  /\ Enc2Frame

Enc2Finish ==
  /\ e2.epc = "seal"
  /\ e2.i >= e2.header.totalChunks
  /\ e2' = [e2 EXCEPT !.progress = Append(@, <<100, 1>>),
                      !.result = [done |-> TRUE, blob |-> Concat(e2.chunks),
                                  filename |-> e2.name \o DotSkita,
                                  originalHash |-> e2.originalHash],
                      !.epc = "done"]
  /\ UNCHANGED seals
  /\ Enc2Frame

\* encryptFile from its first to its last statement with nothing else in
\* flight: what it returns for a file, a name, the options and the values
\* drawn for the salt and the master nonce
EncryptAlone(f, n, pw, alg, s, mn) ==
  LET totalChunks == Ceil(Len(f), CHUNK_SIZE)
      data == [r \in 1..totalChunks |->
                 Slice(f, (r - 1) * CHUNK_SIZE,
                       Min((r - 1) * CHUNK_SIZE + CHUNK_SIZE, Len(f)))]
      hash == calculateHash(Concat(data))
      masterKeyBytes == deriveKeyArgon2(pw, s, DefaultKdfMemory,
                                        DefaultKdfIterations,
                                        DefaultKdfParallelism)
      header == [magic |-> MAGIC_BYTES,
                 version |-> FORMAT_VERSION,
                 algorithm |-> alg,
                 kdf |-> "Argon2id",
                 kdfMemory |-> DefaultKdfMemory,
                 kdfIterations |-> DefaultKdfIterations,
                 kdfParallelism |-> DefaultKdfParallelism,
                 salt |-> s,
                 chunkSize |-> CHUNK_SIZE,
                 originalFilename |-> n,
                 originalSize |-> Len(f),
                 totalChunks |-> Len(data),
                 originalHash |-> hash]
      chunkRecord(i) ==
        LET chunkNonce == deriveChunkNonce(mn, i)
            encryptedChunk == encryptChunk(data[i + 1],
                                           deriveChunkKey(masterKeyBytes, i),
                                           chunkNonce)
        IN LitSeq(BE32(Len(encryptedChunk))) \o LitSeq(chunkNonce)
             \o encryptedChunk
  IN [done |-> TRUE,
      blob |-> Concat(<<serializeHeader(header)>>
                        \o [r \in 1..totalChunks |-> chunkRecord(r - 1)]),
      filename |-> n \o DotSkita,
      originalHash |-> hash]

\* decryptFile's loop from chunk i at offset off with nothing else in flight
RECURSIVE OpenFrom(_, _, _, _, _, _)
OpenFrom(data, masterKeyBytes, totalChunks, i, off, acc) ==
  IF i >= totalChunks
    THEN [ok |-> TRUE, err |-> "", chunks |-> acc]
    ELSE LET chunkHeaderData == Slice(data, off, off + 16)
         IN IF Len(chunkHeaderData) < 4
              THEN [ok |-> FALSE, err |-> "RangeError", chunks |-> <<>>]
              ELSE LET encryptedLength == GetU32(chunkHeaderData, 0)
                       chunkNonce == Vals(Slice(chunkHeaderData, 4, 16))
                       encryptedData == Slice(data, off + 16,
                                              off + 16 + encryptedLength)
                       opened == decryptChunk(encryptedData,
                                              deriveChunkKey(masterKeyBytes, i),
                                              chunkNonce)
                   IN IF opened.ok
                        THEN OpenFrom(data, masterKeyBytes, totalChunks, i + 1,
                                      off + 16 + encryptedLength,
                                      Append(acc, opened.data))
                        ELSE [ok |-> FALSE, err |-> "DecryptFailed",
                              chunks |-> <<>>]

\* decryptFile from its first to its last statement with nothing else in
\* flight: what it returns or throws for a container and a password
DecryptAlone(data, pw) ==
  LET headerData == Slice(data, 0, HeaderWindow)
      parsed == deserializeHeader(headerData)
  IN IF ~parsed.ok
       THEN Failed(parsed.err)
       ELSE LET header == parsed.header
                masterKeyBytes ==
                  deriveKeyArgon2(pw, header.salt, header.kdfMemory,
                                  header.kdfIterations, header.kdfParallelism)
                opened == OpenFrom(data, masterKeyBytes, header.totalChunks, 0,
                                   getHeaderSize(headerData), <<>>)
                decryptedHash == calculateHash(Concat(opened.chunks))
            IN IF ~opened.ok
                 THEN Failed(opened.err)
                 ELSE IF header.originalHash # NoHash
                         /\ decryptedHash # header.originalHash
                   THEN Failed("IntegrityFailed")
                   ELSE [status |-> "ok", err |-> "",
                         blob |-> Concat(opened.chunks),
                         filename |-> header.originalFilename,
                         verified |-> header.originalHash # NoHash,
                         originalHash |-> header.originalHash,
                         decryptedHash |-> IF header.originalHash # NoHash
                                             THEN decryptedHash ELSE NoHash]

NextPair ==
  \/ EncStart \/ EncRead \/ EncHash \/ EncDerive \/ EncChunk \/ EncFinish
  \/ DecStart \/ DecPause \/ DecDerive \/ DecChunk \/ DecFinish
  \/ Enc2Start \/ Enc2Read \/ Enc2Hash \/ Enc2Derive \/ Enc2Chunk
  \/ Enc2Finish

SpecPair == InitPair /\ [][NextPair]_vars

----------------------------------------------------------------------------
(* Properties *)

\* the decryptFile invocation has returned or thrown
DecEnded == dpc \in {"done", "failed"}
\* deserializeHeader has returned a header to decryptFile
DecParsed == dpc \in {"pause", "kdf", "open", "done"}
\* the file given to decryptFile is the container as encryptFile wrote it
Intact == tamper.kind = "none"
\* the first four bytes of the data are exactly S K T A
FirstFourAreMagic(data) ==
  Len(data) >= 4 /\ \A k \in 1..4 : data[k].b = MAGIC_BYTES[k]
\* the bytes decryptFile hands to deserializeHeader
HeaderData == Slice(dfile, 0, HeaderWindow)

\* C1: round trip. decryptFile with the password of encryptFile, on the
\* container encryptFile produced, succeeds and returns the bytes of the
\* plaintext, the file name, and verified = true.
C1_RoundTrip ==
  (DecEnded /\ Intact /\ dpassword = password)
    => /\ dresult.status = "ok"
       /\ dresult.blob = file
       /\ dresult.filename = name
       /\ dresult.verified = TRUE

\* C2: password sensitivity. decryptFile with a password other than the one
\* of encryptFile, on a container that has a first chunk, fails with the
\* wrong-password-or-corrupted error on that chunk and returns no result.
C2_PasswordSensitivity ==
  (DecEnded /\ Intact /\ dpassword # password /\ eheader.totalChunks > 0)
    => /\ dresult.status = "error"
       /\ dresult.err = "DecryptFailed"
       /\ di = 0

\* C3: ciphertext tamper detection. After one byte of the encrypted payload
\* of record i was changed, decryptFile with the correct password fails with
\* the authentication error at chunk i, having opened exactly chunks 0..i-1.
C3_TamperDetectedAtChunk ==
  (DecEnded /\ tamper.kind = "payload" /\ dpassword = password)
    => /\ dresult.status = "error"
       /\ dresult.err = "DecryptFailed"
       /\ di = tamper.rec
       /\ Len(decryptedChunks) = tamper.rec

\* C4: plaintext-hash tamper detection. When every record was replaced by a
\* validly sealed record of different plaintext and decryptFile has opened
\* all of them, it fails with the integrity error and does not return that
\* plaintext.
C4_HashMismatchRejected ==
  (DecEnded /\ tamper.kind = "replace" /\ dpassword = password
     /\ Len(decryptedChunks) = dheader.totalChunks)
    => /\ dresult.status = "error"
       /\ dresult.err = "IntegrityFailed"

\* C5: header length. getHeaderSize of a serialized header is the number of
\* bytes the serialized header occupies, and decryptFile takes that number
\* as the offset of chunk record 0.
C5_HeaderSizeIsLength ==
  /\ chunks # <<>> => getHeaderSize(chunks[1]) = Len(chunks[1])
  /\ (DecParsed /\ Intact) => headerSize = Len(chunks[1])

\* C6: format stability. deserializeHeader(serializeHeader(h)) is equal to h
\* field for field, originalHash included, for the header h that encryptFile
\* builds.
C6_HeaderRoundTrip ==
  epc \in {"seal", "done"}
    => LET parsed == deserializeHeader(serializeHeader(eheader))
       IN parsed.ok /\ parsed.header = eheader

\* C7: bad magic. decryptFile on a file of any length whose first four bytes
\* are not S K T A fails with the invalid-file-format error, before any key
\* derivation.
C7_BadMagicRejected ==
  (dpc # "idle" /\ ~FirstFourAreMagic(dfile))
    => /\ dpc = "failed"
       /\ dresult.err = "InvalidFormat"
       /\ dmasterKey = NoKey

\* C8: unsupported algorithm. decryptFile on a container whose algorithm id
\* byte (offset 6) is neither 0 nor 1 fails with an unsupported-algorithm
\* error; it does not go on to decrypt under a known algorithm.
C8_UnknownAlgorithmRejected ==
  (dpc # "idle" /\ FirstFourAreMagic(dfile) /\ Len(dfile) >= FixedSize
     /\ GetU8(dfile, 6) \notin {0, 1})
    => /\ dpc = "failed"
       /\ dresult.err = "UnsupportedAlgorithm"

\* C9: unsupported version or KDF. decryptFile on a container whose version
\* is not a recognized one (1 or 2), or whose KDF id byte (offset 7) is not
\* 0, fails with an error and derives no key.
C9_UnknownVersionOrKdfRejected ==
  (dpc # "idle" /\ FirstFourAreMagic(dfile) /\ Len(dfile) >= FixedSize
     /\ (GetU16(dfile, 4) \notin {1, 2} \/ GetU8(dfile, 7) # 0))
    => /\ dpc = "failed"
       /\ dresult.err \in {"UnsupportedVersion", "UnsupportedKdf"}
       /\ dmasterKey = NoKey

\* C10: malformed header. When the bytes given to deserializeHeader are
\* fewer than the 63 fixed bytes plus the filename length field, decryptFile
\* fails with a malformed-header error; no header with a cut filename is
\* returned.
C10_ShortHeaderRejected ==
  (dpc # "idle" /\ FirstFourAreMagic(dfile) /\ Len(HeaderData) >= FixedSize
     /\ Len(HeaderData) < FixedSize + GetU16(HeaderData, 61))
    => /\ dpc = "failed"
       /\ dresult.err = "MalformedHeader"

\* C11: input too large. When serializeHeader has written a header, the
\* filename was at most 65535 UTF-8 bytes long and the filename length field
\* and the originalSize field hold the true length and size (a longer
\* input is rejected, never written with a field reduced modulo 2^16 or
\* 2^32).
C11_TooLargeRejected ==
  epc = "headerDone"
    => LET filenameBytes == TextEncode(eheader.originalFilename)
       IN /\ Len(filenameBytes) <= MaxFilenameBytes
          /\ GetU16(chunks[1], 61) = Len(filenameBytes)
          /\ GetU32(chunks[1], 53) = eheader.originalSize

\* cleartext bytes sealed by chunk record r of the container encryptFile
\* builds (a record is 4 + 12 + cleartext + 16 bytes)
SealedLen(r) == Len(chunks[r + 2]) - 32

\* C12: chunk count. The header encryptFile wrote has chunkSize = CHUNK_SIZE
\* and totalChunks = ceil(n / chunkSize) for the input size n, exactly
\* totalChunks records follow it, every record but the last seals chunkSize
\* cleartext bytes and the last seals n - (totalChunks - 1) * chunkSize.
C12_ChunkCount ==
  epc = "done"
    => LET n == Len(file)
           cs == GetU32(chunks[1], 49)
           k == GetU32(chunks[1], 57)
       IN /\ cs = CHUNK_SIZE
          /\ k * cs >= n
          /\ k > 0 => (k - 1) * cs < n
          /\ Len(chunks) = k + 1
          /\ \A r \in 0..(k - 1) :
               /\ SealedLen(r) = IF r < k - 1 THEN cs ELSE n - (k - 1) * cs
               /\ GetU32(chunks[r + 2], 0) = SealedLen(r) + 16
               /\ Len(chunks[r + 2][17].sid[1].data) = SealedLen(r)

\* an input of chunkSize + 1 bytes was encrypted into two records
C12_Witness ==
  epc = "done" /\ Len(file) = CHUNK_SIZE + 1 /\ Len(chunks) = 3

\* bytes of a SHA-256 digest
HashBytes == 32

\* C13: container layout. The container encryptFile returns is the header
\* of 63 + F bytes (F the UTF-8 length of the file name), the 32 bytes of
\* the plaintext hash, and then the records one after the other, record r
\* with length field len_r + 16, a 12-byte nonce and len_r + 16 payload
\* bytes; nothing follows the last record.
C13_ContainerLayout ==
  epc = "done"
    => LET n == Len(file)
           F == Len(TextEncode(name))
           k == Len(chunks) - 1
           blob == eresult.blob
           RecordAt(r) ==
             FixedSize + F + HashBytes + 32 * r + Min(r * CHUNK_SIZE, n)
       IN /\ Len(blob) = RecordAt(k)
          /\ GetU16(blob, 61) = F
          /\ \A r \in 0..(k - 1) :
               /\ GetU32(blob, RecordAt(r))
                    = Min(CHUNK_SIZE, n - r * CHUNK_SIZE) + 16
               /\ \A q \in 1..(Min(CHUNK_SIZE, n - r * CHUNK_SIZE) + 16) :
                    blob[RecordAt(r) + 16 + q].sid # <<>>

\* C14: legacy container. decryptFile with the correct password on a
\* version-0x0001 container whose header ends after the file name succeeds,
\* returns the plaintext and the file name, compares no hash and reports
\* verified = false.
C14_LegacyAccepted ==
  (DecEnded /\ Intact /\ dpassword = password
     /\ GetU16(dfile, 4) = 1 /\ Len(chunks[1]) = FixedSize + GetU16(dfile, 61))
    => /\ dresult.status = "ok"
       /\ dresult.blob = file
       /\ dresult.filename = name
       /\ dresult.verified = FALSE
       /\ dresult.decryptedHash = NoHash
       /\ \A k \in 1..Len(dprogress) : dprogress[k] \notin {<<92, 1>>, <<98, 1>>}

\* C15: errors are terminal and partial output is discarded. The step in
\* which decryptFile fails opens no chunk and moves no offset, the chunks
\* opened are exactly those before the failing index, the caller gets an
\* error and no plaintext, and after the failure decryptFile does nothing
\* more (no further read, no retry).
C15_ErrorsTerminal ==
  [][/\ dpc' = "failed"
        => /\ dresult'.status = "error"
           /\ dresult'.blob = <<>>
           /\ Len(decryptedChunks') = di'
           /\ <<di', decryptedChunks', offset'>> = <<di, decryptedChunks, offset>>
     /\ dpc = "failed" => dvars' = dvars]_vars

\* decryptFile has failed at chunk 1, after chunk 0 was opened
C15_Witness ==
  /\ dpc = "failed" /\ dresult.err = "DecryptFailed"
  /\ di = 1 /\ Len(decryptedChunks) = 1

\* C16: pipeline status machine. The page status changes only along
\* idle -> processing -> success or error; success and error are left only
\* by a reset, which returns the status to idle and clears the selection
\* and the results.
C16_StatusMachine ==
  [][/\ status = "idle" => status' \in {"idle", "processing"}
     /\ status = "processing" => status' \in {"processing", "success", "error"}
     /\ status = "success" => status' \in {"success", "idle"}
     /\ status = "error" => status' \in {"error", "idle"}
     /\ (status \in {"success", "error"} /\ status' # status)
          => selectedFiles' = <<>> /\ processedFiles' = <<>>]_vars

\* a handleProcess in which every file failed has ended in error and the
\* page was reset
C16_Witness ==
  status = "idle" /\ hpc = "idle" /\ hasError /\ results = <<>> /\ hi = MaxFiles

\* C17: chunk order. encryptFile seals chunk ei of the plaintext under chunk
\* key and nonce ei and appends it as record ei, for ei = 0, 1, ... in
\* ascending order, and the returned container holds the records in that
\* order. decryptFile opens the record at its offset under chunk key di and
\* appends its plaintext as chunk di, for di = 0, 1, ... in ascending order
\* (on an untouched container that record is record di and its plaintext is
\* chunk di of the file); the plaintext returned is the opened chunks in
\* index order.
C17_ChunkOrder ==
  [][/\ (epc = "seal" /\ chunks' # chunks)
          => /\ ei' = ei + 1
             /\ Len(chunks) = ei + 1
             /\ seals' = Append(seals, seals'[Len(seals')])
             /\ LET entry == seals'[Len(seals')]
                    start == ei * CHUNK_SIZE
                IN /\ entry.data = Slice(file, start, start + CHUNK_SIZE)
                   /\ entry.key = deriveChunkKey(emasterKey, ei)
                   /\ entry.nonce = deriveChunkNonce(masterNonce, ei)
                   /\ chunks' = Append(chunks, chunks'[Len(chunks')])
                   /\ Slice(chunks'[ei + 2], 16, Len(chunks'[ei + 2]))
                        = [k \in 1..(Len(entry.data) + 16) |-> CtCell(entry, k)]
     /\ (epc = "seal" /\ ei' # ei) => chunks' # chunks
     /\ epc' = "done"
          => /\ Len(chunks') = eheader'.totalChunks + 1
             /\ \A r \in 0..(eheader'.totalChunks - 1) :
                  LET at == Len(chunks'[1])
                            + 32 * r + Min(r * CHUNK_SIZE, Len(file))
                  IN Slice(eresult'.blob, at, at + Len(chunks'[r + 2]))
                       = chunks'[r + 2]
     /\ Len(decryptedChunks') = di'
     /\ (dpc = "open" /\ di' # di)
          => /\ di' = di + 1
             /\ offset' > offset + 16
             /\ decryptedChunks'
                  = Append(decryptedChunks, decryptedChunks'[di'])
             /\ LET entry == dfile[offset + 17].sid[1]
                IN /\ entry.key = deriveChunkKey(dmasterKey, di)
                   /\ entry.data = decryptedChunks'[di']
                   /\ Slice(dfile, offset + 16, offset')
                        = [k \in 1..(Len(entry.data) + 16) |-> CtCell(entry, k)]
             /\ tamper.kind = "none"
                  => /\ offset = RecordStart(di)
                     /\ offset' = RecordStart(di + 1)
                     /\ decryptedChunks'[di'] = fileChunks[di']
     /\ (dpc = "open" /\ decryptedChunks' # decryptedChunks) => di' # di
     /\ (dpc' = "done" /\ dresult'.status = "ok")
          => /\ di' = dheader'.totalChunks
             /\ Len(dresult'.blob)
                  = Len(Concat(decryptedChunks'))
             /\ \A k \in 1..di' :
                  LET at == Len(Concat(SubSeq(decryptedChunks', 1, k - 1)))
                  IN Slice(dresult'.blob, at, at + Len(decryptedChunks'[k]))
                       = decryptedChunks'[k]]_vars

\* decryptFile has opened both records of an untouched two-chunk container
C17_Witness ==
  /\ dpc = "done" /\ dresult.status = "ok" /\ tamper.kind = "none"
  /\ di = 2 /\ Len(chunks) = 3
  /\ decryptedChunks = fileChunks

\* C18: progress monotonicity. In the percents one encryptFile and one
\* decryptFile invocation have passed to onProgress so far (fractions
\* <<numerator, denominator>>), no value is smaller than the one before it,
\* every value lies in [0, 100], encryptFile has reported 100 only once its
\* last chunk is sealed, decryptFile only when it has succeeded, and a failed
\* decryptFile reports nothing more.
C18_ProgressMonotone ==
  [][/\ \A log \in {eprogress', dprogress'} :
          /\ \A k \in 1..Len(log) :
               /\ log[k][2] > 0
               /\ 0 <= log[k][1]
               /\ log[k][1] <= 100 * log[k][2]
          /\ \A k \in 1..(Len(log) - 1) :
               log[k][1] * log[k + 1][2] <= log[k + 1][1] * log[k][2]
     /\ (\E k \in 1..Len(eprogress') :
           eprogress'[k][1] = 100 * eprogress'[k][2])
          => /\ epc' \in {"seal", "done"}
             /\ ei' = eheader'.totalChunks
             /\ Len(chunks') = eheader'.totalChunks + 1
     /\ (\E k \in 1..Len(dprogress') :
           dprogress'[k][1] = 100 * dprogress'[k][2])
          => /\ dpc' = "done"
             /\ dresult'.status = "ok"
             /\ di' = dheader'.totalChunks
     /\ dpc' = "failed"
          => /\ SubSeq(dprogress', 1, Len(dprogress)) = dprogress
             /\ \A k \in 1..Len(dprogress') :
                  dprogress'[k][1] < 100 * dprogress'[k][2]
     /\ dpc = "failed" => dprogress' = dprogress]_vars

\* decryptFile failed at its second chunk after reporting the first, and
\* encryptFile had reported two chunk reads and two sealed chunks
C18_Witness ==
  /\ dpc = "failed" /\ di = 1
  /\ Len(dprogress) = 5
  /\ Len(eprogress) = 9

\* C19: determinism. Two encryptFile invocations that were given the same
\* plaintext, file name, password and algorithm and that drew the same salt
\* and master nonce have returned the same container, cell for cell, the
\* same file name and the same hash, whatever ran before or between them.
C19_Deterministic ==
  (/\ epc = "done" /\ e2.epc = "done"
   /\ e2.file = file /\ e2.name = name
   /\ e2.password = password /\ e2.algorithm = algorithm
   /\ e2.salt = salt /\ e2.masterNonce = masterNonce)
    => /\ e2.result = eresult
       /\ Vals(e2.result.blob) = Vals(eresult.blob)
       /\ e2.result.originalHash = originalHash

\* two invocations with the same inputs and draws, of two chunks each, are
\* both done
C19_Witness ==
  /\ epc = "done" /\ e2.epc = "done"
  /\ e2.file = file /\ e2.name = name /\ e2.password = password
  /\ e2.salt = salt /\ e2.masterNonce = masterNonce
  /\ eheader.totalChunks = 2
  /\ Len(seals) = 4

\* C20: self-contained invocations. With two encryptFile invocations and a
\* decryptFile invocation in flight and their steps interleaved in every
\* order, a step of one invocation changes no local of another, and each
\* invocation that has ended returned (or threw) what it returns when it
\* runs from its first to its last statement with nothing else in flight.
C20_SelfContained ==
  [][/\ e2' # e2 => UNCHANGED <<evars, dvars, dfile>>
     /\ evars' # evars => UNCHANGED <<e2, dvars>>
     /\ dvars' # dvars => UNCHANGED <<evars, e2, dfile>>
     /\ epc' = "done"
          => eresult' = EncryptAlone(file', name', password', algorithm',
                                     salt', masterNonce')
     /\ e2'.epc = "done"
          => e2'.result = EncryptAlone(e2'.file, e2'.name, e2'.password,
                                       e2'.algorithm, e2'.salt,
                                       e2'.masterNonce)
     /\ dpc' \in {"done", "failed"}
          => dresult' = DecryptAlone(dfile', dpassword')]_vars

\* the three invocations were in flight at once, under two passwords, and
\* all have ended
C20_Witness ==
  /\ epc = "done" /\ e2.epc = "done" /\ dpc = "done"
  /\ e2.password # password
  /\ Len(seals) >= 3
  /\ seals[1].key.master # seals[2].key.master
  /\ seals[Len(seals)].key.master = emasterKey

\* C21: whole-file tamper detection. decryptFile with the password of
\* encryptFile never succeeds on a container in which two chunk records
\* changed places, or whose trailing chunk records were removed with the
\* header's totalChunks (and originalSize) adjusted to match.
C21_WholeFileTamperDetected ==
  (/\ DecEnded
   /\ tamper.kind \in {"swap", "drop"}
   /\ dpassword = password)
    => dresult.status = "error"

\* C22: cross-algorithm rejection. When encryptFile was given algorithm
\* ChaCha20-Poly1305 and the container's algorithm byte (offset 6) was then
\* set to 0 (AES-GCM), decryptFile with the password of encryptFile fails
\* with the authentication error on chunk 0.
C22_CrossAlgorithmRejected ==
  (/\ DecEnded
   /\ algorithm = "ChaCha20-Poly1305"
   /\ eheader.totalChunks > 0
   /\ tamper.kind = "header" /\ tamper.at = 6
   /\ GetU8(dfile, 6) = 0
   /\ dpassword = password)
    => /\ dresult.status = "error"
       /\ dresult.err = "DecryptFailed"
       /\ di = 0

\* C23: cancellation. Once the caller has asked for cancellation at a chunk
\* boundary, encryptFile seals no further chunk and decryptFile opens no
\* further chunk; neither goes on to return a container or a plaintext.
C23_CancelHonoured ==
  [][cancelRequested
       => /\ (epc = "seal" /\ ei < eheader.totalChunks)
               => chunks' = chunks /\ ei' = ei
          /\ (dpc = "open" /\ di < dheader.totalChunks)
               => decryptedChunks' = decryptedChunks /\ di' = di]_vars

\* C24: header read window. For a container of encryptFile whose file name
\* has at most 65535 UTF-8 bytes, the header decryptFile parsed from the
\* window it read holds the file name as it was stored, and the offset at
\* which it reads chunk 0 is the end of the header.
C24_WindowHoldsHeader ==
  (/\ DecParsed
   /\ Intact
   /\ Len(TextEncode(name)) <= MaxFilenameBytes)
    => /\ TextEncode(dheader.originalFilename) = TextEncode(name)
       /\ dheader.originalFilename = name
       /\ (dpc = "open" /\ di = 0) => offset = Len(chunks[1])

\* C25: chunk nonces. In every record i that encryptFile has appended, the
\* nonce field (bytes 4..15 of the record) is the first 8 bytes of the master
\* nonce followed by i as a big-endian 32-bit number, and it is the nonce the
\* chunk was sealed with; the nonce fields of two different records differ;
\* and the master nonce is the same 12 bytes after every step of the loop.
C25_ChunkNonces ==
  [][epc' \in {"seal", "done"}
       => /\ Len(masterNonce') = 12
          /\ epc = "seal" => masterNonce' = masterNonce
          /\ \A r \in 0..(Len(chunks') - 2) :
               LET field == Vals(Slice(chunks'[r + 2], 4, 16))
               IN /\ Len(field) = 12
                  /\ SubSeq(field, 1, 8) = SubSeq(masterNonce', 1, 8)
                  /\ GetU32(chunks'[r + 2], 12) = r
                  /\ chunks'[r + 2][17].sid[1].nonce = field
          /\ \A r, q \in 0..(Len(chunks') - 2) :
               r # q => Slice(chunks'[r + 2], 4, 16)
                          # Slice(chunks'[q + 2], 4, 16)]_vars

\* encryptFile has appended two records
C25_Witness ==
  /\ epc = "seal" /\ ei = 2 /\ Len(chunks) = 3
  /\ GetU32(chunks[3], 12) = 1

\* C26: encrypt progress schedule. In an encryptFile invocation over n >= 1
\* chunks the percents reported are, in this order (fractions
\* <<numerator, denominator>>): 0; one value in [0, 10] per chunk read; 10;
\* 12 before the key derivation and 20 after it; after sealing chunk i
\* exactly 20 + 80 * (i + 1) / n, which is 100 after the last chunk; 100.
C26_EncryptSchedule ==
  [][LET n == Ceil(Len(file), CHUNK_SIZE)
         log == eprogress'
         last == log[Len(log)]
     IN n >= 1
          => /\ (epc = "read" /\ epc' = "read")
                  => /\ 0 <= last[1] /\ last[1] <= 10 * last[2]
                     /\ Len(log) = ei' + 1
             /\ emasterKey' # emasterKey
                  => /\ eprogress[Len(eprogress)] = <<12, 1>>
                     /\ eprogress[Len(eprogress) - 1] = <<10, 1>>
                     /\ last = <<20, 1>>
                     /\ Len(log) = n + 4
             /\ chunks' # chunks /\ epc = "seal"
                  => /\ last[1] * n = (20 * n + 80 * (ei + 1)) * last[2]
                     /\ Len(log) = n + 4 + ei'
                     /\ ei' = n => last[1] = 100 * last[2]
             /\ epc' = "done"
                  => /\ Len(log) = 2 * n + 5
                     /\ log[1] = <<0, 1>>
                     /\ \A k \in 2..(n + 1) :
                          0 <= log[k][1] /\ log[k][1] <= 10 * log[k][2]
                     /\ log[n + 2] = <<10, 1>>
                     /\ log[n + 3] = <<12, 1>>
                     /\ log[n + 4] = <<20, 1>>
                     /\ \A i \in 0..(n - 1) :
                          log[n + 5 + i][1] * n
                            = (20 * n + 80 * (i + 1)) * log[n + 5 + i][2]
                     /\ log[2 * n + 4][1] = 100 * log[2 * n + 4][2]
                     /\ last = <<100, 1>>]_vars

\* encryptFile has ended over two chunks
C26_Witness ==
  /\ epc = "done" /\ eheader.totalChunks = 2
  /\ Len(eprogress) = 9
  /\ eprogress[8] = <<200, 2>>

\* C27: empty input. When encryptFile was given a 0-byte file, the container
\* it returned has totalChunks = 0 and no records, and decryptFile with the
\* same password on that container succeeds with a 0-byte plaintext and the
\* file name encryptFile was given.
C27_EmptyInputConsistent ==
  (/\ DecEnded
   /\ Intact
   /\ Len(file) = 0
   /\ dpassword = password)
    => /\ GetU32(dfile, 57) = 0
       /\ Len(chunks) = 1
       /\ dfile = chunks[1]
       /\ dresult.status = "ok"
       /\ dresult.blob = <<>>
       /\ dresult.filename = name

\* C28: size consistency on decrypt. Whenever decryptFile has returned a
\* result, whatever was done to the container, it opened as many chunks as
\* the parsed header's totalChunks says and the plaintext it returned is as
\* long as the parsed header's originalSize says.
C28_SizeConsistent ==
  (dpc = "done" /\ dresult.status = "ok")
    => /\ di = dheader.totalChunks
       /\ Len(decryptedChunks) = dheader.totalChunks
       /\ Len(dresult.blob) = dheader.originalSize

\* C29: batch driver bookkeeping. When batchEncryptFiles or batchDecryptFiles
\* has returned, results and errors have one entry per file, exactly one of
\* the two is non-null for every file, totalSuccess counts the non-null
\* results and totalSuccess + totalFailed is the number of files; the
\* callbacks were called file by file in index order, and for every file
\* exactly one of onFileComplete and onFileError was called, after all of
\* that file's onFileProgress calls.
C29_BatchBookkeeping ==
  batch.bpc = "returned"
    => LET n == Len(batch.files)
           calls == batch.calls
           Ended(k) == calls[k].kind \in {"complete", "error"}
       IN /\ Len(batch.results) = n
          /\ Len(batch.errors) = n
          /\ \A k \in 1..Min(Len(batch.results), Len(batch.errors)) :
               (batch.results[k] = "null") # (batch.errors[k] = "null")
          /\ batch.totalSuccess + batch.totalFailed = n
          /\ batch.totalSuccess
               = Cardinality({k \in 1..Len(batch.results) :
                                batch.results[k] = "value"})
          /\ \A k \in 1..(Len(calls) - 1) :
               calls[k].fileIndex <= calls[k + 1].fileIndex
          /\ \A f \in 0..(n - 1) :
               /\ Cardinality({k \in 1..Len(calls) :
                                 calls[k].fileIndex = f /\ Ended(k)}) = 1
               /\ \A k, l \in 1..Len(calls) :
                    (/\ calls[k].fileIndex = f /\ calls[l].fileIndex = f
                     /\ Ended(k) /\ calls[l].kind = "progress") => l < k

\* C30: batch page outcome. Once handleProcess has finished over the selected
\* files (and until the page is reset), every file's status is success or
\* error, the page status is success exactly when some file succeeded and
\* error exactly when every file failed, the all-failed message is set
\* exactly in the latter case, processedFiles holds the results of the
\* successful files in file order, and the overall progress is 100.
C30_BatchPageOutcome ==
  status \in {"success", "error"}
    => LET n == Len(selectedFiles)
           Succeeded == {k \in 0..(n - 1) :
                           fileProgresses[k + 1].status = "success"}
       IN /\ hpc = "idle"
          /\ n >= 1
          /\ Len(fileProgresses) = n
          /\ \A k \in 1..n :
               fileProgresses[k].status \in {"success", "error"}
          /\ status = "success" <=> Succeeded # {}
          /\ status = "error" <=> Succeeded = {}
          /\ error = AllFailed <=> Succeeded = {}
          /\ error \in {"", AllFailed}
          /\ Len(processedFiles) = Cardinality(Succeeded)
          /\ \A k \in 1..Len(processedFiles) : processedFiles[k] \in Succeeded
          /\ \A k \in 1..(Len(processedFiles) - 1) :
               processedFiles[k] < processedFiles[k + 1]
          /\ overallProgress = <<100, 1>>

\* handleProcess has finished over two files of which the first failed and
\* the second succeeded
C30_Witness ==
  /\ status = "success" /\ hpc = "idle"
  /\ Len(selectedFiles) = 2
  /\ fileProgresses[1].status = "error"
  /\ fileProgresses[2].status = "success"
  /\ processedFiles = <<1>>

====
